---- MODULE Spec2Model ----
(***************************************************************************)
(* Order submission / cancellation orchestration of limit-orders-react:    *)
(* useGelatoStopLimitOrdersHandlers (stop-limit handlers) and              *)
(* useGelatoLimitOrdersHandlers (plain limit handlers).                    *)
(*                                                                         *)
(* Every handler is an async function: a call runs synchronously up to its *)
(* first await, is suspended there, and is resumed when the awaited        *)
(* promise resolves or rejects.  A call is one element of `calls`; each    *)
(* action is one synchronous stretch of one handler.                       *)
(*                                                                         *)
(* A value that may be undefined is a sequence of length <= 1: <<>> is     *)
(* undefined and <<v>> is v.  Text whose characters matter (transaction    *)
(* hashes, decimal renderings) is a sequence of one-character strings.     *)
(***************************************************************************)
EXTENDS Integers, Sequences, FiniteSets, TLC

VARIABLES
    calls,          \* the handler calls made so far, in call order: those in
                    \* flight and the one that settled last
    transactions,   \* what addTransaction was given (the transaction list)
    orders,         \* the order history store: order id -> order record
    dispatched,     \* the hashes of the transactions the network accepted
    order,          \* the order draft: useOrderState()
    market,         \* what the price source and the wallet currently give
    swap,           \* the order panel's swap state: useState of GelatoLimitOrder
    captured,       \* per panel submission: what its handleSwap closed over
    rateChanges     \* how often the rate sign was clicked in this session

panelVars == <<order, market, swap, captured, rateChanges>>

vars == <<calls, transactions, orders, dispatched, order, market, swap, captured,
          rateChanges>>

(***************************************************************************)
(* Bounds of the model.                                                    *)
(***************************************************************************)
MaxCalls == 2
MaxRateChanges == 2

Undefined == <<>>
Some(v) == <<v>>
IsDefined(o) == o # <<>>
Val(o) == o[1]

(***************************************************************************)
(* Text.                                                                   *)
(***************************************************************************)
DigitChars == <<"0", "1", "2", "3", "4", "5", "6", "7", "8", "9">>

DigitChar(d) == DigitChars[d + 1]

RECURSIVE NumToString(_)
\* Number.prototype.toString() of a non-negative integer.
NumToString(n) ==
    IF n < 10 THEN <<DigitChar(n)>>
    ELSE Append(NumToString(n \div 10), DigitChar(n % 10))

DigitValue(ch) == CHOOSE d \in 0..9 : DigitChars[d + 1] = ch

RECURSIVE BigNumberFrom(_)
\* BigNumber.from of a decimal string.
BigNumberFrom(s) ==
    IF Len(s) = 0 THEN 0
    ELSE 10 * BigNumberFrom(SubSeq(s, 1, Len(s) - 1)) + DigitValue(s[Len(s)])

RECURSIVE Pow10(_)
Pow10(n) == IF n = 0 THEN 1 ELSE 10 * Pow10(n - 1)

RECURSIVE FractionDigits(_, _)
\* The digits of frac / 10^places after the decimal point, without the
\* trailing zeros.
FractionDigits(frac, places) ==
    IF frac = 0 \/ places = 0 THEN <<>>
    ELSE <<DigitChar(frac \div Pow10(places - 1))>>
            \o FractionDigits(frac % Pow10(places - 1), places - 1)

LowerChar(ch) ==
    CASE ch = "A" -> "a"
      [] ch = "B" -> "b"
      [] ch = "C" -> "c"
      [] ch = "D" -> "d"
      [] ch = "E" -> "e"
      [] ch = "F" -> "f"
      [] OTHER -> ch

\* String.prototype.toLowerCase.
ToLowerCase(s) == [i \in DOMAIN s |-> LowerChar(s[i])]

\* Math.round(Date.now() / 1000) for a clock reading in milliseconds.
NowSeconds(ms) == (ms + 500) \div 1000

(***************************************************************************)
(* The values the handlers are called with.                                *)
(***************************************************************************)
\* chainId 0 stands for an undefined chainId, account "" for an undefined one.
ClockReadings == {1500}             \* Date.now(), in milliseconds
Errors == {"user rejected", "network error"}

\* The default gas price, useGasPrice().
gasPrice == "gasPrice"

\* What the stop-limit handlers close over: the client that
\* useGelatoStopLimitOrdersLib() returned (undefined, without a signer, with a
\* signer) and useWeb3()'s chainId and account.
StopLimitEnv(lib, chainId, account) ==
    [gelatoStopLimitOrders |-> lib, chainId |-> chainId, account |-> account]

\* For a submission: all there, no client, no chainId, no signer.
StopSubmissionEnvs ==
    { StopLimitEnv(Some([signer |-> TRUE]), 137, "alice"),
      StopLimitEnv(Undefined, 0, ""),
      StopLimitEnv(Some([signer |-> TRUE]), 0, "alice"),
      StopLimitEnv(Some([signer |-> FALSE]), 137, "alice") }

\* For a cancellation: all there, no client, no chainId, no account.
StopCancellationEnvs ==
    { StopLimitEnv(Some([signer |-> TRUE]), 137, "alice"),
      StopLimitEnv(Undefined, 0, ""),
      StopLimitEnv(Some([signer |-> TRUE]), 0, "alice"),
      StopLimitEnv(Some([signer |-> TRUE]), 137, "") }

\* orderToSubmit: a well-formed draft, the same draft with the `overrides`
\* member the public interface declares, a draft with identical tokens and a
\* missing amount, and one with a zero amount.
Draft(inputToken, inputAmount, overrides) ==
    [ inputToken |-> inputToken, outputToken |-> "B", inputAmount |-> inputAmount,
      outputAmount |-> "7", slippage |-> 40, owner |-> "alice",
      overrides |-> overrides ]

MemberOverrides == [gasLimit |-> 900000]

\* An `overrides` argument that itself carries to, data and value (and no
\* gasLimit).
ArgOverrides == [nonce |-> 3, to |-> "0xevil", data |-> "0xdead", value |-> 99]

\* <<orderToSubmit, overrides>>
SubmissionArgs ==
    { <<Draft("A", "5", Undefined), Undefined>>,
      <<Draft("A", "5", Some(MemberOverrides)), Undefined>>,
      <<Draft("B", "", Undefined), Some(ArgOverrides)>>,
      <<Draft("A", "0", Undefined), Undefined>> }

\* An order the user holds that this session never submitted, as the
\* order list shows it; the second lacks its witness.
ForeignOrder(witness) ==
    [ id |-> 0, owner |-> "alice", inputToken |-> "A", outputToken |-> "B",
      inputAmount |-> "5", maxReturn |-> "7", module |-> "stoplimit",
      data |-> "0xorder", witness |-> witness, status |-> "open",
      createdTxHash |-> <<"0", "x", "f", "f">>, updatedAt |-> <<"1">> ]

\* ... and a third has its witness but an empty data payload.
ForeignOrders ==
    { ForeignOrder(<<0>>), ForeignOrder(Undefined),
      [ForeignOrder(<<0>>) EXCEPT !.data = ""] }

OrderDetails ==
    [ inputTokenSymbol |-> "A", outputTokenSymbol |-> "B", inputAmount |-> "5",
      outputAmount |-> "7", maxOutputAmount |-> "7" ]

\* <<orderDetails, overrides>> of a cancellation.
CancellationArgs ==
    { <<Undefined, Undefined>>, <<Some(OrderDetails), Some(ArgOverrides)>> }

\* What the plain limit handlers close over from useWeb3(): an Ethereum
\* chain, another chain, no chainId, no library.
LimitEnv(chainId, library) == [chainId |-> chainId, library |-> library]

LimitSubmissionEnvs ==
    { LimitEnv(137, TRUE), LimitEnv(1, TRUE), LimitEnv(0, TRUE), LimitEnv(137, FALSE) }

LimitCancellationEnvs ==
    { LimitEnv(137, TRUE), LimitEnv(0, TRUE), LimitEnv(137, FALSE) }

\* A currency: `address` is wrapped.address.
TokenA == [address |-> "0xA", isNative |-> FALSE, symbol |-> "A", decimals |-> 1]
TokenB == [address |-> "0xB", isNative |-> FALSE, symbol |-> "B", decimals |-> 2]
Ether == [address |-> "0xWETH", isNative |-> TRUE, symbol |-> "ETH", decimals |-> 2]
TokenC == [address |-> "0xC", isNative |-> FALSE, symbol |-> "C", decimals |-> 0]

\* A CurrencyAmount: numerator / denominator, in the token's smallest unit.
Amount(numerator) == [numerator |-> numerator, denominator |-> 1]

\* What useDerivedOrderInfo() and useOrderState() give the plain limit
\* handlers.
LimitDraft(input, output, parsedInput, parsedOutput, rateType) ==
    [ currencies |-> [input |-> input, output |-> output],
      parsedAmounts |-> [input |-> parsedInput, output |-> parsedOutput],
      formattedAmounts |-> [input |-> "5", output |-> "7", price |-> "1.4"],
      rateType |-> rateType ]

LimitDrafts ==
    { LimitDraft(Some(TokenA), Some(TokenB), Some(Amount(50)), Some(Amount(700)), "MUL"),
      LimitDraft(Some(Ether), Some(TokenA), Some(Amount(500)), Some(Amount(70)), "DIV"),
      LimitDraft(Undefined, Some(TokenB), Undefined, Some(Amount(700)), "MUL"),
      LimitDraft(Some(TokenA), Undefined, Some(Amount(50)), Undefined, "MUL"),
      LimitDraft(Some(TokenA), Some(TokenB), Undefined, Some(Amount(700)), "MUL"),
      LimitDraft(Some(TokenA), Some(TokenB), Some(Amount(50)), Undefined, "DIV") }

\* <<fromCurrency, toCurrency, amount, witness>> of a plain limit cancellation.
LimitCancellationArgs == { <<"0xA", "0xB", "50", "0xwitness">> }

\* The payload the execution client encodes for a submission.
Payloads == { [to |-> "0xcore", data |-> "0xsubmit", value |-> <<"1", "2">>] }

\* The hash of the transaction dispatched by call c, as the provider spells it.
TxHashes(c) == { <<"0", "x", "A", "b", DigitChar(c)>> }

(***************************************************************************)
(* The order history store (state/gtransactions).                          *)
(***************************************************************************)
\* find(id)
Find(store, id) == IF id \in DOMAIN store THEN Some(store[id]) ELSE Undefined

\* append(record)
AppendOrder(store, record) == (record.id :> record) @@ store

\* patch(id, fields): applied to the record found by identifier lookup.
PatchOrder(store, id, fields) ==
    IF IsDefined(Find(store, id))
        THEN [store EXCEPT ![id] = fields @@ @]
        ELSE store

\* The store after addTransaction(tx, info): an order that comes with the
\* transaction is appended (submission) or patched (cancellation).
StoreOrder(store, added) ==
    IF "order" \notin DOMAIN added THEN store
    ELSE IF added.type = "submission" THEN AppendOrder(store, added.order)
    ELSE PatchOrder(store, added.order.id, added.order)

RECURSIVE StoreOrders(_, _)
StoreOrders(store, addedSeq) ==
    IF addedSeq = <<>> THEN store
    ELSE StoreOrders(StoreOrder(store, Head(addedSeq)), Tail(addedSeq))

(***************************************************************************)
(* Calls.                                                                  *)
(***************************************************************************)
\* A call that has just been made: nothing invoked, nothing awaited.
NewCall(kind, env, arg, overrides) ==
    [ kind |-> kind,
      pc |-> "start",
      env |-> env,              \* what the handler closed over
      arg |-> arg,
      overrides |-> overrides,
      clientCalls |-> <<>>,     \* invocations of the execution client
      sendCalls |-> <<>>,       \* invocations of signer.sendTransaction
      added |-> <<>>,           \* invocations of addTransaction
      details |-> Undefined,    \* the orderDetails argument
      enc |-> Undefined,        \* what the encode step returned
      tx |-> Undefined,         \* the transaction response
      rejection |-> "",         \* the error an awaited promise rejected with
      err |-> "",               \* the error the call rejected with
      result |-> Undefined ]    \* what the call resolved with

Settled == {"resolved", "rejected"}

\* What is kept of a call once a later call has settled: its effects on
\* transactions and orders, and nothing else.
Retired == [kind |-> "retired", pc |-> "retired"]

RetireSettled(cs) ==
    [i \in DOMAIN cs |-> IF cs[i].pc \in Settled THEN Retired ELSE cs[i]]

\* A throw, or the rejection of an awaited promise, is not caught by any
\* handler: the call rejects with that error.
Throw(call, e) == [call EXCEPT !.pc = "rejected", !.err = e]

Return(call, v) == [call EXCEPT !.pc = "resolved", !.result = Some(v)]

\* Begin behind a single-flight guard: no call while another is outstanding.
BeginExclusive(call) ==
    /\ Len(calls) < MaxCalls
    /\ \A c \in DOMAIN calls : calls[c].pc \in Settled \cup {"retired"}
    /\ calls' = Append(IF call.pc \in Settled THEN RetireSettled(calls) ELSE calls, call)
    /\ transactions' = transactions \cup {call.added[i] : i \in DOMAIN call.added}
    /\ orders' = StoreOrders(orders, call.added)
    /\ UNCHANGED <<dispatched, panelVars>>

\* What a new call, run up to its first await (or to its throw), does to the
\* calls, the transaction list and the order history.
Started(call) ==
    /\ Len(calls) < MaxCalls
    /\ calls' = Append(IF call.pc \in Settled THEN RetireSettled(calls) ELSE calls, call)
    /\ transactions' = transactions \cup {call.added[i] : i \in DOMAIN call.added}
    /\ orders' = StoreOrders(orders, call.added)

\* A new call made on a handler directly.
Begin(call) ==
    /\ Started(call)
    /\ UNCHANGED <<dispatched, panelVars>>

\* Call c runs on from its await: `call` is what it has become.  What it
\* has handed to addTransaction meanwhile reaches the transaction list and the
\* order history.
Resumed(c, call) ==
    LET new == SubSeq(call.added, Len(calls[c].added) + 1, Len(call.added))
    IN  /\ calls' = [(IF call.pc \in Settled THEN RetireSettled(calls) ELSE calls)
                        EXCEPT ![c] = call]
        /\ transactions' = transactions \cup {new[i] : i \in DOMAIN new}
        /\ orders' = StoreOrders(orders, new)

\* ... of a call made on a handler directly.
Resume(c, call) ==
    /\ Resumed(c, call)
    /\ UNCHANGED panelVars

\* call invokes the execution client / signer.sendTransaction / addTransaction.
InvokeClient(call, method, args) ==
    [call EXCEPT !.clientCalls = Append(@, [method |-> method, args |-> args])]

InvokeSend(call, request) == [call EXCEPT !.sendCalls = Append(@, request)]

InvokeAdd(call, tx, info) ==
    [call EXCEPT !.added = Append(@, [hash |-> tx.hash] @@ info)]

\* The promise call c awaits rejects with e.
Rejection(c, e) == [calls[c] EXCEPT !.rejection = e]

\* OnRejected that sends a rejected transaction once more.
OnRejectedRetry(call, e) ==
    IF call.pc = "send" /\ Len(call.sendCalls) < 2
        THEN InvokeSend(call, call.sendCalls[1])
        ELSE Throw(call, e)

\* No handler wraps an await in try/catch: the rejection of the awaited
\* promise is the rejection of the call.
OnRejected(call, e) == Throw(call, e)

Awaiting(c, kind, pc) ==
    /\ c \in DOMAIN calls
    /\ calls[c].kind = kind
    /\ calls[c].pc = pc

(***************************************************************************)
(* handleStopLimitOrderSubmission                                          *)
(***************************************************************************)
\* StopSubmissionGuard without its signer check.
StopSubmissionGuardNoSigner(env) ==
    IF ~IsDefined(env.gelatoStopLimitOrders)
        THEN "Could not reach Gelato Limit Orders library"
    ELSE IF env.chainId = 0 THEN "No chainId"
    ELSE ""

\* The guards before the first await: "" when all pass.
StopSubmissionGuard(env) ==
    IF ~IsDefined(env.gelatoStopLimitOrders)
        THEN "Could not reach Gelato Limit Orders library"
    ELSE IF env.chainId = 0 THEN "No chainId"
    ELSE IF ~Val(env.gelatoStopLimitOrders).signer THEN "No signer"
    ELSE ""

\* The arguments of encodeStopLimitOrderSubmissionWithSecret.
EncodeArgs(orderToSubmit) ==
    << orderToSubmit.inputToken, orderToSubmit.outputToken,
       orderToSubmit.inputAmount, orderToSubmit.outputAmount,
       orderToSubmit.slippage, orderToSubmit.owner >>

\* What encodeStopLimitOrderSubmissionWithSecret resolves with for call c:
\* a witness derived from a fresh secret, the payload, and the order.
EncodeResult(c, args, payload) ==
    [ witness |-> <<c>>,
      payload |-> payload,
      order |-> [ id |-> c, owner |-> args[6], inputToken |-> args[1],
                  outputToken |-> args[2], inputAmount |-> args[3],
                  maxReturn |-> args[4], module |-> "stoplimit",
                  data |-> "0xorder" ] ]

\* The request with the overrides spread after the payload's fields.
SubmissionTxRequestOverridesLast(orderToSubmit, overrides, payload) ==
    (IF IsDefined(overrides) THEN Val(overrides) ELSE [gasPrice |-> gasPrice])
        @@ [to |-> payload.to, data |-> payload.data, value |-> BigNumberFrom(payload.value)]

\* { ...(overrides ?? { gasPrice }), to, data, value: BigNumber.from(value) }
SubmissionTxRequest(orderToSubmit, overrides, payload) ==
    [to |-> payload.to, data |-> payload.data, value |-> BigNumberFrom(payload.value)]
        @@ (IF IsDefined(overrides) THEN Val(overrides) ELSE [gasPrice |-> gasPrice])

\* SubmissionOrder with the hash as the provider spelled it.
SubmissionOrderRawHash(enc, tx, now) ==
    [ createdTxHash |-> tx.hash, witness |-> enc.witness,
      status |-> "open", updatedAt |-> NumToString(now) ] @@ enc.order

\* { ...order, createdTxHash, witness, status: "open", updatedAt }
SubmissionOrder(enc, tx, now) ==
    [ createdTxHash |-> ToLowerCase(tx.hash), witness |-> enc.witness,
      status |-> "open", updatedAt |-> NumToString(now) ] @@ enc.order

\* The call up to `await encodeStopLimitOrderSubmissionWithSecret(...)`.
StopSubmissionStart(env, orderToSubmit, overrides) ==
    LET call == NewCall("stopSubmit", env, orderToSubmit, overrides)
        e == StopSubmissionGuard(env)
    IN  IF e # "" THEN Throw(call, e)
        ELSE [ InvokeClient(call, "encodeStopLimitOrderSubmissionWithSecret",
                            EncodeArgs(orderToSubmit))
                 EXCEPT !.pc = "encode" ]

HandleStopLimitOrderSubmission(env, orderToSubmit, overrides) ==
    /\ <<orderToSubmit, overrides>> \in SubmissionArgs
    /\ Begin(StopSubmissionStart(env, orderToSubmit, overrides))

\* StopSubmissionEncoded recording the order before the transaction is sent.
StopSubmissionEncodedOptimistic(call, enc) ==
    LET pending == [hash |-> <<"0", "x">>]
        sending == [ InvokeSend(call, [to |-> enc.payload.to, data |-> enc.payload.data,
                                        value |-> BigNumberFrom(enc.payload.value)])
                       EXCEPT !.pc = "send", !.enc = Some(enc) ]
    IN  InvokeAdd(sending, pending,
                  [ summary |-> <<"Order submission">>, type |-> "submission",
                    order |-> [ createdTxHash |-> pending.hash, witness |-> enc.witness,
                                status |-> "open", updatedAt |-> <<"0">> ] @@ enc.order ])

\* From the encode step's result up to `await signer.sendTransaction(...)`.
StopSubmissionEncoded(call, enc) ==
    [ InvokeSend(call, SubmissionTxRequest(call.arg, call.overrides, enc.payload))
        EXCEPT !.pc = "send", !.enc = Some(enc) ]

EncodeResolved(c, payload) ==
    /\ Awaiting(c, "stopSubmit", "encode")
    /\ Resume(c, StopSubmissionEncoded(calls[c],
                    EncodeResult(c, calls[c].clientCalls[1].args, payload)))
    /\ UNCHANGED dispatched

EncodeRejected(c, e) ==
    /\ Awaiting(c, "stopSubmit", "encode")
    /\ Resume(c, OnRejected(Rejection(c, e), e))
    /\ UNCHANGED dispatched

\* addTransaction's second argument in handleStopLimitOrderSubmission.
SubmissionInfo(call, tx, now) ==
    [ summary |-> <<"Order submission">>,
      type |-> "submission",
      order |-> SubmissionOrder(Val(call.enc), tx, now) ]

\* From sendTransaction's response to the return.
StopSubmissionSent(call, tx, now) ==
    Return(InvokeAdd([call EXCEPT !.tx = Some(tx)], tx, SubmissionInfo(call, tx, now)), tx)

SendResolved(c, hash, ms) ==
    /\ Awaiting(c, "stopSubmit", "send")
    /\ dispatched' = dispatched \cup {hash}
    /\ Resume(c, StopSubmissionSent(calls[c], [hash |-> hash], NowSeconds(ms)))

SendRejected(c, e) ==
    /\ Awaiting(c, "stopSubmit", "send")
    /\ Resume(c, OnRejected(Rejection(c, e), e))
    /\ UNCHANGED dispatched

(***************************************************************************)
(* handleStopLimitOrderCancellation                                        *)
(***************************************************************************)
\* StopCancellationGuard without its account check.
StopCancellationGuardNoAccount(env) ==
    IF ~IsDefined(env.gelatoStopLimitOrders)
        THEN "Could not reach Gelato Limit Orders library"
    ELSE IF env.chainId = 0 THEN "No chainId"
    ELSE ""

\* The guards before the await: "" when all pass.
StopCancellationGuard(env) ==
    IF ~IsDefined(env.gelatoStopLimitOrders)
        THEN "Could not reach Gelato Limit Orders library"
    ELSE IF env.chainId = 0 THEN "No chainId"
    ELSE IF env.account = "" THEN "No account"
    ELSE ""

\* CheckIfOrderExists that looks at the witness alone.
CheckIfOrderExistsWitnessOnly(orderToCancel) ==
    /\ "witness" \in DOMAIN orderToCancel
    /\ orderToCancel.witness # <<>>

\* Boolean(module && inputToken && owner && witness && data)
CheckIfOrderExists(orderToCancel) ==
    /\ \A k \in {"module", "inputToken", "owner", "data"} :
          k \in DOMAIN orderToCancel /\ orderToCancel[k] # ""
    /\ "witness" \in DOMAIN orderToCancel
    /\ orderToCancel.witness # <<>>

DefaultGasLimit == 600000

\* overrides ?? { gasPrice, gasLimit: 600000 }
CancellationOverrides(overrides) ==
    IF IsDefined(overrides) THEN Val(overrides)
    ELSE [gasPrice |-> gasPrice, gasLimit |-> DefaultGasLimit]

\* The call up to `await gelatoStopLimitOrders.cancelLimitOrder(...)`.
StopCancellationStart(env, orderToCancel, orderDetails, overrides) ==
    LET call == [NewCall("stopCancel", env, orderToCancel, overrides)
                    EXCEPT !.details = orderDetails]
        e == StopCancellationGuard(env)
    IN  IF e # "" THEN Throw(call, e)
        ELSE [ InvokeClient(call, "cancelLimitOrder",
                            << orderToCancel, CheckIfOrderExists(orderToCancel),
                               CancellationOverrides(overrides) >>)
                 EXCEPT !.pc = "cancel" ]

HandleStopLimitOrderCancellation(env, orderToCancel, orderDetails, overrides) ==
    /\ <<orderDetails, overrides>> \in CancellationArgs
    /\ Begin(StopCancellationStart(env, orderToCancel, orderDetails, overrides))

\* orderDetails ? `Order cancellation: Stoploss ...` : "Order cancellation"
CancellationSummary(orderDetails) ==
    IF IsDefined(orderDetails)
        THEN << "Order cancellation: Stoploss", Val(orderDetails).inputAmount,
                Val(orderDetails).inputTokenSymbol, "valid at",
                Val(orderDetails).maxOutputAmount,
                Val(orderDetails).outputTokenSymbol >>
        ELSE <<"Order cancellation">>

\* CancellationOrder that leaves the status as it was.
CancellationOrderKeepStatus(orderToCancel, tx, now) ==
    [ updatedAt |-> NumToString(now),
      cancelledTxHash |-> ToLowerCase(tx.hash) ] @@ orderToCancel

\* CancellationOrder built from the identifier alone.
CancellationOrderBare(orderToCancel, tx, now) ==
    [ id |-> orderToCancel.id, updatedAt |-> NumToString(now),
      status |-> "cancelled", cancelledTxHash |-> ToLowerCase(tx.hash) ]

\* { ...orderToCancel, updatedAt, status: "cancelled", cancelledTxHash }
CancellationOrder(orderToCancel, tx, now) ==
    [ updatedAt |-> NumToString(now), status |-> "cancelled",
      cancelledTxHash |-> ToLowerCase(tx.hash) ] @@ orderToCancel

\* addTransaction's second argument in handleStopLimitOrderCancellation.
CancellationInfo(call, tx, now) ==
    [ summary |-> CancellationSummary(call.details),
      type |-> "cancellation",
      order |-> CancellationOrder(call.arg, tx, now) ]

\* From cancelLimitOrder's response to the return.
StopCancellationSent(call, tx, now) ==
    Return(InvokeAdd([call EXCEPT !.tx = Some(tx)], tx, CancellationInfo(call, tx, now)), tx)

CancelResolved(c, hash, ms) ==
    /\ Awaiting(c, "stopCancel", "cancel")
    /\ dispatched' = dispatched \cup {hash}
    /\ Resume(c, StopCancellationSent(calls[c], [hash |-> hash], NowSeconds(ms)))

CancelRejected(c, e) ==
    /\ Awaiting(c, "stopCancel", "cancel")
    /\ Resume(c, OnRejected(Rejection(c, e), e))
    /\ UNCHANGED dispatched

(***************************************************************************)
(* useGelatoLimitOrdersHandlers                                            *)
(***************************************************************************)
\* chainId && library ? new GelatoLimitOrders(chainId, library.getSigner())
\*                    : undefined
GelatoLimitOrdersOf(env) ==
    IF env.chainId # 0 /\ env.library THEN Some([chainId |-> env.chainId])
    ELSE Undefined

\* toExact() of the amount as it is, in whole tokens.
ToExactUnscaled(amount, currency) ==
    LET scale == Pow10(currency.decimals)
        quotient == amount.numerator \div amount.denominator
    IN  NumToString(quotient \div scale)
            \o (IF quotient % scale = 0 THEN <<>>
                ELSE <<".">> \o FractionDigits(quotient % scale, currency.decimals))

\* CurrencyAmount.multiply(10^decimals).toExact() for an amount of `currency`.
ScaledToExact(amount, currency) ==
    LET scale == Pow10(currency.decimals)
        quotient == (amount.numerator * scale) \div amount.denominator
    IN  NumToString(quotient \div scale)
            \o (IF quotient % scale = 0 THEN <<>>
                ELSE <<".">> \o FractionDigits(quotient % scale, currency.decimals))

\* rawAmounts.input / rawAmounts.output
RawAmount(currency, parsedAmount) ==
    IF ~IsDefined(currency) \/ ~IsDefined(parsedAmount) THEN Undefined
    ELSE Some(ScaledToExact(Val(parsedAmount), Val(currency)))

RawAmounts(draft) ==
    [ input |-> RawAmount(draft.currencies.input, draft.parsedAmounts.input),
      output |-> RawAmount(draft.currencies.output, draft.parsedAmounts.output) ]

\* A defined raw amount is a non-empty string: `!rawAmounts.x` is true only of
\* an undefined one.
LimitSubmissionGuard(env, draft) ==
    IF ~IsDefined(draft.currencies.input) \/ Val(draft.currencies.input).address = ""
        THEN "Invalid input currency"
    ELSE IF ~IsDefined(draft.currencies.output) \/ Val(draft.currencies.output).address = ""
        THEN "Invalid output currency"
    ELSE IF ~IsDefined(RawAmounts(draft).input) \/ Val(RawAmounts(draft).input) = <<>>
        THEN "Invalid input amount"
    ELSE IF ~IsDefined(RawAmounts(draft).output) \/ Val(RawAmounts(draft).output) = <<>>
        THEN "Invalid output amount"
    ELSE IF ~IsDefined(GelatoLimitOrdersOf(env))
        THEN "Could not reach Gelato Limit Orders library"
    ELSE IF env.chainId = 0 THEN "No chainId"
    ELSE ""

MAINNET == 1
ROPSTEN == 3

\* utils.isEthereumChain
IsEthereumChain(chainId) == chainId \in {MAINNET, ROPSTEN}

\* gelatoLimitOrders.getFeeAndSlippageAdjustedMinReturn(amount).minReturn:
\* the amount less the protocol fee and the slippage, kept symbolic.
FeeAndSlippageAdjustedMinReturn(amount) == <<"adjusted">> \o amount

\* MinReturn that adjusts on every chain.
MinReturnAlwaysAdjusted(env, draft) ==
    FeeAndSlippageAdjustedMinReturn(Val(RawAmounts(draft).output))

\* !isEthereumChain(chainId) ? getFeeAndSlippageAdjustedMinReturn(rawAmounts.output)
\*                            : { minReturn: rawAmounts.output }
MinReturn(env, draft) ==
    IF ~IsEthereumChain(env.chainId)
        THEN FeeAndSlippageAdjustedMinReturn(Val(RawAmounts(draft).output))
        ELSE Val(RawAmounts(draft).output)

NATIVE == "0xNATIVE"

\* currency.isNative ? NATIVE : currency.wrapped.address
TokenAddress(currency) == IF currency.isNative THEN NATIVE ELSE currency.address

\* The summary handleLimitOrderSubmission gives addTransaction.
LimitSubmissionSummary(draft) ==
    LET inSymbol == Val(draft.currencies.input).symbol
        outSymbol == Val(draft.currencies.output).symbol
    IN  << "Swap", draft.formattedAmounts.input, inSymbol, "for",
           draft.formattedAmounts.output, outSymbol, "when 1",
           IF draft.rateType = "MUL" THEN inSymbol ELSE outSymbol, "=",
           draft.formattedAmounts.price,
           IF draft.rateType = "MUL" THEN outSymbol ELSE inSymbol >>

\* The call up to `await gelatoLimitOrders.submitLimitOrder(...)`.
LimitSubmissionStart(env, draft) ==
    LET call == NewCall("limitSubmit", env, draft, Undefined)
        e == LimitSubmissionGuard(env, draft)
    IN  IF e # "" THEN Throw(call, e)
        ELSE [ InvokeClient(call, "submitLimitOrder",
                   << TokenAddress(Val(draft.currencies.input)),
                      TokenAddress(Val(draft.currencies.output)),
                      Val(RawAmounts(draft).input), MinReturn(env, draft) >>)
                 EXCEPT !.pc = "submit" ]

HandleLimitOrderSubmission(env, draft) ==
    /\ draft \in LimitDrafts
    /\ Begin(LimitSubmissionStart(env, draft))

\* From submitLimitOrder's response to the return of tx?.hash.
LimitSubmissionSent(call, tx) ==
    Return(InvokeAdd([call EXCEPT !.tx = Some(tx)], tx,
                     [summary |-> LimitSubmissionSummary(call.arg), type |-> "submission"]),
           tx.hash)

SubmitResolved(c, hash) ==
    /\ Awaiting(c, "limitSubmit", "submit")
    /\ dispatched' = dispatched \cup {hash}
    /\ Resume(c, LimitSubmissionSent(calls[c], [hash |-> hash]))

SubmitRejected(c, e) ==
    /\ Awaiting(c, "limitSubmit", "submit")
    /\ Resume(c, OnRejected(Rejection(c, e), e))
    /\ UNCHANGED dispatched

LimitCancellationGuard(env) ==
    IF ~IsDefined(GelatoLimitOrdersOf(env))
        THEN "Could not reach Gelato Limit Orders library"
    ELSE ""

\* The call up to `await gelatoLimitOrders.cancelLimitOrder(...)`.
LimitCancellationStart(env, args) ==
    LET call == NewCall("limitCancel", env, args, Undefined)
        e == LimitCancellationGuard(env)
    IN  IF e # "" THEN Throw(call, e)
        ELSE [InvokeClient(call, "cancelLimitOrder", args) EXCEPT !.pc = "cancel"]

HandleLimitOrderCancellation(env, args) ==
    /\ args \in LimitCancellationArgs
    /\ Begin(LimitCancellationStart(env, args))

\* From cancelLimitOrder's response to the return of tx?.hash.
LimitCancellationSent(call, tx) ==
    Return(InvokeAdd([call EXCEPT !.tx = Some(tx)], tx,
                     [summary |-> <<"Order cancellation">>, type |-> "cancellation"]),
           tx.hash)

LimitCancelResolved(c, hash) ==
    /\ Awaiting(c, "limitCancel", "cancel")
    /\ dispatched' = dispatched \cup {hash}
    /\ Resume(c, LimitCancellationSent(calls[c], [hash |-> hash]))

LimitCancelRejected(c, e) ==
    /\ Awaiting(c, "limitCancel", "cancel")
    /\ Resume(c, OnRejected(Rejection(c, e), e))
    /\ UNCHANGED dispatched

(***************************************************************************)
(* The order draft and the order panel (GelatoLimitOrder).                 *)
(***************************************************************************)
\* The significant digits of a displayed amount or price: toSignificant(6).
SignificantDigits == 6

\* A decimal string, by its value m / 10^e: no trailing zero after the point.
\* A text field holds <<>> (the empty string) or <<d>> (the decimal string d).
Dec(m, e) == [m |-> m, e |-> e]

RECURSIVE Normalized(_)
Normalized(d) ==
    IF d.e > 0 /\ d.m % 10 = 0 THEN Normalized(Dec(d.m \div 10, d.e - 1)) ELSE d

\* A Fraction of the SDK: numerator / denominator.
Fraction(numerator, denominator) ==
    [numerator |-> numerator, denominator |-> denominator]

\* <<quotient, remainder>> of a * m by b, given those of a * (m \div 2) by b:
\* the remainders are carried so that no intermediate value exceeds a, b or
\* the quotient.
MulDivStep(half, a, bit, b) ==
    LET carry == half[2] >= b - half[2]
        doubled == << 2 * half[1] + (IF carry THEN 1 ELSE 0),
                      IF carry THEN half[2] - (b - half[2]) ELSE 2 * half[2] >>
        more == doubled[2] >= b - (a % b)
    IN  IF bit = 0 THEN doubled
        ELSE << doubled[1] + (a \div b) + (IF more THEN 1 ELSE 0),
                IF more THEN doubled[2] - (b - (a % b)) ELSE doubled[2] + (a % b) >>

RECURSIVE MulDiv(_, _, _)
\* <<quotient, remainder>> of a * m by b (a, m >= 0, b > 0).
MulDiv(a, m, b) ==
    IF m = 0 THEN <<0, 0>>
    ELSE CHOOSE qr \in { MulDivStep(half, a, m % 2, b) :
                            half \in {MulDiv(a, m \div 2, b)} } : TRUE

RECURSIVE SignificantPlaces(_, _)
\* The decimal places that give a positive fraction its significant digits.
SignificantPlaces(f, places) ==
    IF MulDiv(f.numerator, Pow10(places), f.denominator)[1]
            >= Pow10(SignificantDigits - 1)
        THEN places
        ELSE SignificantPlaces(f, places + 1)

RECURSIVE ExcessDigits(_)
\* The digits an integer has beyond the significant ones.
ExcessDigits(n) ==
    IF n < Pow10(SignificantDigits) THEN 0 ELSE 1 + ExcessDigits(n \div 10)

\* Fraction.toSignificant(6, format, rounding) of a positive fraction:
\* ROUND_HALF_UP when halfUp, ROUND_DOWN otherwise.
ToSignificant(f, halfUp) ==
    LET places == SignificantPlaces(f, 0)
        qr == MulDiv(f.numerator, Pow10(places), f.denominator)
        unit == Pow10(ExcessDigits(qr[1]))
    IN  IF unit = 1
            THEN Normalized(Dec(IF halfUp /\ qr[2] >= f.denominator - qr[2]
                                    THEN qr[1] + 1 ELSE qr[1],
                                places))
            ELSE Dec(((qr[1] + (IF halfUp THEN unit \div 2 ELSE 0)) \div unit) * unit, 0)

\* The order state (state/gorder) of a new session: nothing typed yet.
OrderState(input, output, rateType) ==
    [ independentField |-> "INPUT", typedValue |-> <<>>, inputValue |-> <<>>,
      rateType |-> rateType,
      currencies |-> [input |-> input, output |-> output] ]

InitialOrder == OrderState(Some(TokenC), Some(TokenA), "MUL")

\* The sessions a draft starts from: either rate type, a token missing or not.
InitialOrders ==
    { OrderState(input, output, rateType) :
        input \in {Some(TokenC), Undefined}, output \in {Some(TokenA), Undefined},
        rateType \in {"MUL", "DIV"} }

\* What the user types: nothing, 3, 0.3, 1234567 as an amount; 0.5 and 9.7
\* as a price.
TypedAmounts == { <<>>, <<Dec(3, 0)>>, <<Dec(3, 1)>>, <<Dec(1234567, 0)>> }
TypedPrices == { <<Dec(5, 1)>>, <<Dec(97, 1)>> }

\* The price source: units of the output token for one of the input token
\* (undefined while there is no route), and the sign of the price impact the
\* fiat values give (undefined while there are none).
Market(rate, priceImpact) == [rate |-> rate, priceImpact |-> priceImpact]

InitialMarket == Market(Some(Fraction(2, 1)), Some(0))

Markets ==
    { Market(rate, priceImpact) :
        rate \in {Undefined, Some(Fraction(2, 1))},
        priceImpact \in {Undefined, Some(0), Some(1)} }

\* onUserInput(field, typedValue): setIndependentField.
OnUserInput(o, field, typedValue) ==
    [o EXCEPT !.independentField = field,
              !.typedValue = typedValue,
              !.inputValue = IF field = "INPUT" THEN typedValue ELSE @]

\* onChangeRateType(rateType)
OnChangeRateType(o, rateType) == [o EXCEPT !.rateType = rateType]

\* toFixedPoint: a typed amount in the smallest unit of its token, truncated
\* to an integer; undefined without a token or a positive amount.
ParsedAmount(typed, currency) ==
    IF ~IsDefined(typed) \/ ~IsDefined(currency) THEN Undefined
    ELSE LET raw == MulDiv(Val(typed).m, Pow10(Val(currency).decimals),
                           Pow10(Val(typed).e))[1]
         IN  IF raw = 0 THEN Undefined ELSE Some(Amount(raw))

\* What `amount` of token `from` is worth in token `to`, at `ratio` units of
\* `to` for one unit of `from`: truncated, undefined when nothing is left.
Converted(amount, from, to, ratio) ==
    LET raw == MulDiv(amount.numerator * Pow10(to.decimals), ratio.numerator,
                      ratio.denominator * Pow10(from.decimals))[1]
    IN  IF raw = 0 THEN Undefined ELSE Some(Amount(raw))

\* invert(ratio)
Inverted(ratio) == Fraction(ratio.denominator, ratio.numerator)

\* The ratio a typed price stands for, in output per input.
TypedRate(price, rateType) ==
    IF rateType = "MUL" THEN Fraction(price.m, Pow10(price.e))
    ELSE Fraction(Pow10(price.e), price.m)

\* applyTypedPrice(price, independentAmount, rateType): the output amount.
ApplyTypedPrice(price, amount, currencies, rateType) ==
    Converted(amount, Val(currencies.input), Val(currencies.output),
              TypedRate(price, rateType))

\* priceFrom(inputAmount, outputAmount, rateType): MUL gives output/input,
\* DIV gives input/output, in whole tokens.
PriceFrom(input, output, currencies, rateType) ==
    LET outputPerInput ==
            Fraction(output.numerator * Pow10(Val(currencies.input).decimals),
                     input.numerator * Pow10(Val(currencies.output).decimals))
    IN  IF rateType = "MUL" THEN outputPerInput ELSE Inverted(outputPerInput)

\* DerivedAmounts of useDerivedOrderInfo(): the amount of the independent
\* field is parsed, the others follow from the typed price or the market.
ParsedAmounts(o, mkt) ==
    LET cur == o.currencies
        both == IsDefined(cur.input) /\ IsDefined(cur.output)
        typedOutput == ParsedAmount(o.typedValue, cur.output)
        input ==
            IF o.independentField # "OUTPUT" THEN ParsedAmount(o.inputValue, cur.input)
            ELSE IF both /\ IsDefined(typedOutput) /\ IsDefined(mkt.rate)
                THEN Converted(Val(typedOutput), Val(cur.output), Val(cur.input),
                               Inverted(Val(mkt.rate)))
            ELSE Undefined
        output ==
            IF o.independentField = "OUTPUT" THEN typedOutput
            ELSE IF ~both \/ ~IsDefined(input) THEN Undefined
            ELSE IF o.independentField = "INPUT"
                THEN IF IsDefined(mkt.rate)
                        THEN Converted(Val(input), Val(cur.input), Val(cur.output),
                                       Val(mkt.rate))
                        ELSE Undefined
            ELSE IF IsDefined(o.typedValue) /\ Val(o.typedValue).m > 0
                THEN ApplyTypedPrice(Val(o.typedValue), Val(input), cur, o.rateType)
            ELSE Undefined
    IN  [input |-> input, output |-> output]

DerivedPrice(o, mkt) ==
    LET parsed == ParsedAmounts(o, mkt)
    IN  IF IsDefined(parsed.input) /\ IsDefined(parsed.output)
            THEN Some(PriceFrom(Val(parsed.input), Val(parsed.output),
                                o.currencies, o.rateType))
            ELSE Undefined

\* CurrencyAmount.toSignificant(6) of an amount of `currency`: rounds down.
AmountToSignificant(amount, currency) ==
    ToSignificant(Fraction(amount.numerator,
                           amount.denominator * Pow10(currency.decimals)), FALSE)

\* formattedAmounts with a zero in place of a value that cannot be derived.
FormattedAmountsZeroFilled(o, mkt) ==
    LET parsed == ParsedAmounts(o, mkt)
        price == DerivedPrice(o, mkt)
    IN  [ input |->
              IF o.independentField = "INPUT" THEN o.typedValue
              ELSE IF IsDefined(parsed.input)
                  THEN Some(AmountToSignificant(Val(parsed.input), Val(o.currencies.input)))
              ELSE Some(Dec(0, 0)),
          output |->
              IF o.independentField = "OUTPUT" THEN o.typedValue
              ELSE IF IsDefined(parsed.output)
                  THEN Some(AmountToSignificant(Val(parsed.output), Val(o.currencies.output)))
              ELSE Some(Dec(0, 0)),
          price |->
              IF o.independentField = "PRICE" THEN o.typedValue
              ELSE IF IsDefined(price) THEN Some(ToSignificant(Val(price), TRUE))
              ELSE Some(Dec(0, 0)) ]

\* formattedAmounts: the independent field shows what was typed, the others
\* what was derived, or nothing.
FormattedAmounts(o, mkt) ==
    LET parsed == ParsedAmounts(o, mkt)
        price == DerivedPrice(o, mkt)
    IN  [ input |->
              IF o.independentField = "INPUT" THEN o.typedValue
              ELSE IF IsDefined(parsed.input)
                  THEN Some(AmountToSignificant(Val(parsed.input), Val(o.currencies.input)))
              ELSE <<>>,
          output |->
              IF o.independentField = "OUTPUT" THEN o.typedValue
              ELSE IF IsDefined(parsed.output)
                  THEN Some(AmountToSignificant(Val(parsed.output), Val(o.currencies.output)))
              ELSE <<>>,
          price |->
              IF o.independentField = "PRICE" THEN o.typedValue
              ELSE IF IsDefined(price) THEN Some(ToSignificant(Val(price), TRUE))
              ELSE <<>> ]

\* What useDerivedOrderInfo() and useOrderState() give the handlers and the
\* panel for the draft `o`.
DerivedOrderInfo(o, mkt) ==
    [ currencies |-> o.currencies,
      parsedAmounts |-> ParsedAmounts(o, mkt),
      formattedAmounts |-> FormattedAmounts(o, mkt),
      rateType |-> o.rateType ]

Opposite(rateType) == IF rateType = "MUL" THEN "DIV" ELSE "MUL"

\* `flipped` of the plain limit handleRateType: input over output when the
\* rate type is MUL, output over input when it is DIV, in whole tokens.
LimitFlipped(info) ==
    LET parsed == info.parsedAmounts
        cur == info.currencies
    IN  IF ~IsDefined(parsed.input) \/ ~IsDefined(parsed.output) THEN Undefined
        ELSE IF info.rateType = "MUL"
            THEN IF ~IsDefined(cur.output) THEN Undefined
                 ELSE Some(ToSignificant(
                        Fraction(Val(parsed.input).numerator * Pow10(Val(cur.output).decimals),
                                 Val(parsed.output).numerator * Pow10(Val(cur.input).decimals)),
                        FALSE))
        ELSE IF ~IsDefined(cur.input) THEN Undefined
             ELSE Some(ToSignificant(
                        Fraction(Val(parsed.output).numerator * Pow10(Val(cur.input).decimals),
                                 Val(parsed.input).numerator * Pow10(Val(cur.output).decimals)),
                        FALSE))

\* The draft after handleRateType() of useGelatoLimitOrdersHandlers.
LimitRateTypeChanged(o, mkt) ==
    LET flipped == LimitFlipped(DerivedOrderInfo(o, mkt))
        changed == OnChangeRateType(o, Opposite(o.rateType))
    IN  IF IsDefined(flipped) THEN OnUserInput(changed, "PRICE", flipped) ELSE changed

\* The draft after handleRateType(rateType, price) of
\* useGelatoStopLimitOrdersHandlers.
StopLimitRateTypeChanged(o, rateType, price) ==
    IF rateType = "MUL"
        THEN OnChangeRateType(
                IF IsDefined(price)
                    THEN OnUserInput(o, "PRICE",
                                     Some(ToSignificant(Inverted(Val(price)), TRUE)))
                    ELSE o,
                "DIV")
        ELSE OnChangeRateType(
                IF IsDefined(price)
                    THEN OnUserInput(o, "PRICE", Some(ToSignificant(Val(price), TRUE)))
                    ELSE o,
                "MUL")

\* A step that touches the draft alone.
DraftStep(o) ==
    /\ order' = o
    /\ UNCHANGED <<calls, transactions, orders, dispatched, market, swap, captured>>

\* A click on a rate sign.
RateStep(o) ==
    /\ rateChanges < MaxRateChanges
    /\ rateChanges' = rateChanges + 1
    /\ DraftStep(o)

\* Typing into a field.
TypeStep(o) ==
    /\ DraftStep(o)
    /\ UNCHANGED rateChanges

\* handleTypeInput, handleTypeOutput, handleTypeDesiredRate: handleInput.
HandleTypeInput(value) == TypeStep(OnUserInput(order, "INPUT", value))

HandleTypeOutput(value) == TypeStep(OnUserInput(order, "OUTPUT", value))

HandleTypeDesiredRate(value) == TypeStep(OnUserInput(order, "PRICE", value))

\* A click on the rate sign of the panel.
HandleRateType == RateStep(LimitRateTypeChanged(order, market))

\* The stop-limit panel passes the rate type and the price it shows.
HandleStopLimitRateType ==
    RateStep(StopLimitRateTypeChanged(order, order.rateType, DerivedPrice(order, market)))

\* The price source reports another market.
MarketMoves(mkt) ==
    /\ mkt # market
    /\ market' = mkt
    /\ UNCHANGED <<calls, transactions, orders, dispatched, order, swap, captured,
                   rateChanges>>

\* swapState of the panel before anything was clicked.
InitialSwap ==
    [ showConfirm |-> FALSE, tradeToConfirm |-> Undefined, attemptingTxn |-> FALSE,
      swapErrorMessage |-> Undefined, txHash |-> Undefined ]

\* The validator's inputError of useDerivedOrderInfo(): "" when the draft
\* passes, else the first blocking reason.
InputError(o, mkt) ==
    LET cur == o.currencies
        parsed == ParsedAmounts(o, mkt)
        independent ==
            IF o.independentField = "INPUT" THEN IsDefined(parsed.input)
            ELSE IF o.independentField = "OUTPUT" THEN IsDefined(parsed.output)
            ELSE IsDefined(o.typedValue) /\ Val(o.typedValue).m > 0
    IN  IF ~IsDefined(cur.input) \/ ~IsDefined(cur.output) THEN "MissingToken"
        ELSE IF Val(cur.input).address = Val(cur.output).address THEN "IdenticalTokens"
        ELSE IF ~independent THEN "InvalidAmount"
        ELSE IF ~IsDefined(parsed.input) \/ ~IsDefined(parsed.output) THEN "NoRoute"
        ELSE IF IsDefined(mkt.priceImpact) /\ Val(mkt.priceImpact) > 0
            THEN "PriceBelowMarket"
        ELSE ""

\* derivedOrderInfo.trade: the route the market offers, if any.
Trade(mkt) == mkt.rate

\* priceImpact?.greaterThan("0")
PriceImpactPositive(mkt) == IsDefined(mkt.priceImpact) /\ Val(mkt.priceImpact) > 0

\* const isValid = !inputError
IsValid(o, mkt) == InputError(o, mkt) = ""

\* What BottomGrouping renders, for a connected wallet and supported tokens.
BottomGrouping(o, mkt) ==
    IF /\ ~IsDefined(Trade(mkt))
       /\ o.independentField \in {"INPUT", "OUTPUT"}
       /\ IsDefined(ParsedAmounts(o, mkt).input)
        THEN [shown |-> "Insufficient liquidity for this trade.", enabled |-> FALSE]
    ELSE IF PriceImpactPositive(mkt)
        THEN [ shown |-> "Only possible to place orders above market rate",
               enabled |-> FALSE ]
    ELSE [shown |-> "limit-order-button", enabled |-> IsValid(o, mkt)]

\* A click on the place-order button opens the confirmation.
PlaceOrderClicked ==
    /\ BottomGrouping(order, market) = [shown |-> "limit-order-button", enabled |-> TRUE]
    /\ swap' = [ tradeToConfirm |-> Trade(market), attemptingTxn |-> FALSE,
                 swapErrorMessage |-> Undefined, showConfirm |-> TRUE,
                 txHash |-> Undefined ]
    /\ UNCHANGED <<calls, transactions, orders, dispatched, order, market, captured,
                   rateChanges>>

\* setSwapState of handleSwap's then callback, for the closure `closed`.
SwapStateResolved(closed, hash) ==
    [ attemptingTxn |-> FALSE, tradeToConfirm |-> closed.tradeToConfirm,
      showConfirm |-> closed.showConfirm, swapErrorMessage |-> Undefined,
      txHash |-> Some(hash) ]

\* The catch callback's state with the error's message left out.
SwapStateRejectedSilently(closed, message) ==
    [ attemptingTxn |-> FALSE, tradeToConfirm |-> closed.tradeToConfirm,
      showConfirm |-> closed.showConfirm, swapErrorMessage |-> Undefined,
      txHash |-> Undefined ]

\* setSwapState of handleSwap's catch callback.
SwapStateRejected(closed, message) ==
    [ attemptingTxn |-> FALSE, tradeToConfirm |-> closed.tradeToConfirm,
      showConfirm |-> closed.showConfirm, swapErrorMessage |-> Some(message),
      txHash |-> Undefined ]

\* setSwapState of handleSwap before the submission.
SwapStateAttempting(closed) ==
    [ attemptingTxn |-> TRUE, tradeToConfirm |-> closed.tradeToConfirm,
      showConfirm |-> closed.showConfirm, swapErrorMessage |-> Undefined,
      txHash |-> Undefined ]

\* The open confirmation offers its confirm button while nothing is being
\* attempted and neither a hash nor an error is shown.
ConfirmOffered ==
    /\ swap.showConfirm
    /\ ~swap.attemptingTxn
    /\ ~IsDefined(swap.txHash)
    /\ ~IsDefined(swap.swapErrorMessage)

\* handleSwap, the confirmation's onConfirm, up to the await inside
\* handleLimitOrderSubmission(); a submission that throws before it settles
\* its promise at once and the catch callback runs. `confirmed` is the
\* answer of confirmPriceImpactWithoutFee.
HandleSwap(env, confirmed) ==
    LET closed == [tradeToConfirm |-> swap.tradeToConfirm, showConfirm |-> swap.showConfirm]
    IN  /\ ConfirmOffered
        /\ IsDefined(market.priceImpact) => confirmed
        /\ \E info \in {DerivedOrderInfo(order, market)} :
              \E call \in {LimitSubmissionStart(env, info)} :
                  /\ Started(call)
                  /\ swap' = IF call.pc = "rejected"
                                THEN SwapStateRejected(closed, call.err)
                                ELSE SwapStateAttempting(closed)
        /\ captured' = Append(captured, closed)
        /\ UNCHANGED <<dispatched, order, market, rateChanges>>

\* submitLimitOrder answered: the handler returns the hash, then(...) runs.
SwapResolved(c, hash) ==
    /\ Awaiting(c, "limitSubmit", "submit")
    /\ dispatched' = dispatched \cup {hash}
    /\ Resumed(c, LimitSubmissionSent(calls[c], [hash |-> hash]))
    /\ swap' = SwapStateResolved(captured[c], hash)
    /\ UNCHANGED <<order, market, captured, rateChanges>>

\* submitLimitOrder rejected: the handler rejects, catch(...) runs.
SwapRejected(c, e) ==
    /\ Awaiting(c, "limitSubmit", "submit")
    /\ Resumed(c, OnRejected(Rejection(c, e), e))
    /\ swap' = SwapStateRejected(captured[c], e)
    /\ UNCHANGED <<dispatched, order, market, captured, rateChanges>>

\* handleConfirmDismiss with an input that is cleared whatever txHash is.
HandleConfirmDismissAlwaysClearing ==
    /\ swap.showConfirm
    /\ swap' = [swap EXCEPT !.showConfirm = FALSE]
    /\ order' = OnUserInput(order, "INPUT", <<>>)
    /\ UNCHANGED <<calls, transactions, orders, dispatched, market, captured, rateChanges>>

\* handleConfirmDismiss, the confirmation's onDismiss.
HandleConfirmDismiss ==
    /\ swap.showConfirm
    /\ swap' = [swap EXCEPT !.showConfirm = FALSE]
    /\ order' = IF IsDefined(swap.txHash) THEN OnUserInput(order, "INPUT", <<>>)
                ELSE order
    /\ UNCHANGED <<calls, transactions, orders, dispatched, market, captured, rateChanges>>

\* handleAcceptChanges, when the trade is no longer the one to confirm.
HandleAcceptChanges ==
    /\ swap.showConfirm
    /\ swap.tradeToConfirm # Trade(market)
    /\ swap' = [swap EXCEPT !.tradeToConfirm = Trade(market)]
    /\ UNCHANGED <<calls, transactions, orders, dispatched, order, market, captured,
                   rateChanges>>

(***************************************************************************)
(* The order watcher (outside these handlers) sees an open order executed. *)
(***************************************************************************)
OrderExecuted(id) ==
    /\ id \in DOMAIN orders
    /\ orders[id].status = "open"
    /\ orders' = [orders EXCEPT ![id].status = "executed"]
    /\ UNCHANGED <<calls, transactions, dispatched, panelVars>>

(***************************************************************************)
(* The specification.                                                      *)
(***************************************************************************)
NoCalls ==
    /\ calls = <<>>
    /\ transactions = {}
    /\ orders = <<>>
    /\ dispatched = {}

Init ==
    /\ NoCalls
    /\ order = InitialOrder
    /\ market = InitialMarket
    /\ swap = InitialSwap
    /\ captured = <<>>
    /\ rateChanges = 0

\* The stop-limit hook: useGelatoStopLimitOrdersHandlers.
StopSubmissionNext ==
    \/ \E env \in StopSubmissionEnvs, a \in SubmissionArgs :
          HandleStopLimitOrderSubmission(env, a[1], a[2])
    \/ \E c \in 1..MaxCalls, p \in Payloads : EncodeResolved(c, p)
    \/ \E c \in 1..MaxCalls, e \in Errors : EncodeRejected(c, e)
    \/ \E c \in 1..MaxCalls, ms \in ClockReadings :
          \E h \in TxHashes(c) : SendResolved(c, h, ms)
    \/ \E c \in 1..MaxCalls, e \in Errors : SendRejected(c, e)

StopCancellationNext ==
    \/ \E env \in StopCancellationEnvs, a \in CancellationArgs :
          \E o \in {orders[id] : id \in DOMAIN orders} \cup ForeignOrders :
              HandleStopLimitOrderCancellation(env, o, a[1], a[2])
    \/ \E c \in 1..MaxCalls, ms \in ClockReadings :
          \E h \in TxHashes(c) : CancelResolved(c, h, ms)
    \/ \E c \in 1..MaxCalls, e \in Errors : CancelRejected(c, e)

\* The plain limit hook: useGelatoLimitOrdersHandlers.
LimitSubmissionNext ==
    \/ \E env \in LimitSubmissionEnvs, d \in LimitDrafts :
          HandleLimitOrderSubmission(env, d)
    \/ \E c \in 1..MaxCalls : \E h \in TxHashes(c) : SubmitResolved(c, h)
    \/ \E c \in 1..MaxCalls, e \in Errors : SubmitRejected(c, e)

LimitCancellationNext ==
    \/ \E env \in LimitCancellationEnvs, a \in LimitCancellationArgs :
          HandleLimitOrderCancellation(env, a)
    \/ \E c \in 1..MaxCalls : \E h \in TxHashes(c) : LimitCancelResolved(c, h)
    \/ \E c \in 1..MaxCalls, e \in Errors : LimitCancelRejected(c, e)

Next ==
    \/ StopSubmissionNext
    \/ StopCancellationNext
    \/ LimitSubmissionNext
    \/ LimitCancellationNext
    \/ \E id \in DOMAIN orders : OrderExecuted(id)

Spec == Init /\ [][Next]_vars

(***************************************************************************)
(* The draft alone: what is typed, the rate sign, the market.              *)
(***************************************************************************)
DraftInit ==
    /\ NoCalls
    /\ order \in InitialOrders
    /\ market \in Markets
    /\ swap = InitialSwap
    /\ captured = <<>>
    /\ rateChanges = 0

DraftNext ==
    \/ \E v \in TypedAmounts : HandleTypeInput(v)
    \/ \E v \in TypedAmounts : HandleTypeOutput(v)
    \/ \E v \in TypedPrices : HandleTypeDesiredRate(v)
    \/ HandleRateType
    \/ HandleStopLimitRateType
    \/ \E mkt \in Markets : MarketMoves(mkt)

DraftSpec == DraftInit /\ [][DraftNext]_vars

(***************************************************************************)
(* The order panel: the draft, the confirmation and the submission.        *)
(***************************************************************************)
\* What the panel's user types, the markets it sees, and its useWeb3().
PanelAmounts == { <<>>, <<Dec(3, 0)>> }
PanelPrices == { <<Dec(5, 1)>> }
PanelMarkets ==
    { InitialMarket, Market(Some(Fraction(2, 1)), Some(1)), Market(Undefined, Undefined) }
PanelEnvs == { LimitEnv(137, TRUE) }
PanelErrors == { "user rejected" }

\* The fields are typed into while the confirmation is closed.
PanelNext ==
    \/ \E v \in PanelAmounts : ~swap.showConfirm /\ HandleTypeInput(v)
    \/ \E v \in PanelPrices : ~swap.showConfirm /\ HandleTypeDesiredRate(v)
    \/ \E mkt \in PanelMarkets : MarketMoves(mkt)
    \/ PlaceOrderClicked
    \/ \E env \in PanelEnvs, confirmed \in BOOLEAN : HandleSwap(env, confirmed)
    \/ \E c \in 1..MaxCalls : \E h \in TxHashes(c) : SwapResolved(c, h)
    \/ \E c \in 1..MaxCalls, e \in PanelErrors : SwapRejected(c, e)
    \/ HandleConfirmDismiss
    \/ HandleAcceptChanges

\* A session starts with either rate type chosen.
PanelInit ==
    /\ NoCalls
    /\ order \in { OrderState(Some(TokenC), Some(TokenA), rateType) :
                      rateType \in {"MUL", "DIV"} }
    /\ market = InitialMarket
    /\ swap = InitialSwap
    /\ captured = <<>>
    /\ rateChanges = 0

PanelSpec == PanelInit /\ [][PanelNext]_vars

(***************************************************************************)
(* Vocabulary of the properties.                                           *)
(***************************************************************************)
Live == {c \in DOMAIN calls : calls[c].kind # "retired"}

CallsOf(kind) == {c \in Live : calls[c].kind = kind}

LowerDispatched == {ToLowerCase(h) : h \in dispatched}

\* Nothing of call c has reached the transaction list.
NoTransactionOf(c) == \A t \in transactions : t.hash \notin TxHashes(c)

NothingInvoked(call) ==
    /\ call.clientCalls = <<>>
    /\ call.sendCalls = <<>>
    /\ call.added = <<>>

\* The dispatch attempts of a call: signer.sendTransaction, and the client
\* methods that send a transaction themselves.
DispatchAttempts(call) ==
    Len(call.sendCalls)
        + Cardinality({i \in DOMAIN call.clientCalls :
                          call.clientCalls[i].method
                              \in {"cancelLimitOrder", "submitLimitOrder"}})

\* A checked precondition of handleStopLimitOrderSubmission fails.
StopSubmissionPreconditionFails(call) ==
    \/ ~IsDefined(call.env.gelatoStopLimitOrders)
    \/ call.env.chainId = 0
    \/ ~Val(call.env.gelatoStopLimitOrders).signer

\* A checked precondition of handleLimitOrderSubmission fails.
LimitSubmissionPreconditionFails(call) ==
    \/ ~call.env.library
    \/ call.env.chainId = 0
    \/ ~IsDefined(call.arg.currencies.input)
    \/ ~IsDefined(call.arg.currencies.output)
    \/ ~IsDefined(call.arg.parsedAmounts.input)
    \/ ~IsDefined(call.arg.parsedAmounts.output)

\* The draft of a stop-limit submission does not pass the validator.
InvalidDraft(orderToSubmit) ==
    \/ orderToSubmit.inputToken = orderToSubmit.outputToken
    \/ orderToSubmit.inputAmount \in {"", "0"}

\* The overrides the caller of a stop-limit submission supplied: the
\* `overrides` argument, or the `overrides` member of orderToSubmit.
SuppliedOverrides(call) ==
    IF IsDefined(call.overrides) THEN call.overrides ELSE call.arg.overrides

(***************************************************************************)
(* C1.  A handleStopLimitOrderSubmission call whose encode step and        *)
(* sendTransaction both succeed appends exactly one history record: its    *)
(* status is "open", its witness the one the encode step returned, its     *)
(* createdTxHash the lower-cased hash of the dispatched transaction.  A    *)
(* call that has not got that far, or has failed, has appended none.       *)
(***************************************************************************)
C1_SubmissionAppendsOneOpenRecord ==
    \A c \in CallsOf("stopSubmit") :
        LET call == calls[c] IN
        IF call.pc = "resolved"
        THEN /\ Len(call.added) = 1
             /\ call.added[1].type = "submission"
             /\ call.added[1].hash = Val(call.tx).hash
             /\ call.added[1].hash \in dispatched
             /\ call.added[1].order.status = "open"
             /\ call.added[1].order.witness = Val(call.enc).witness
             /\ call.added[1].order.createdTxHash = ToLowerCase(Val(call.tx).hash)
             /\ Cardinality({t \in transactions : t.hash \in TxHashes(c)}) = 1
             /\ call.added[1] \in transactions
             /\ Cardinality({id \in DOMAIN orders :
                    orders[id].witness = Val(call.enc).witness}) = 1
             /\ [orders[c] EXCEPT !.status = "open"] = call.added[1].order
        ELSE /\ call.added = <<>>
             /\ NoTransactionOf(c)
             /\ c \notin DOMAIN orders

C1_Witness ==
    \E c \in CallsOf("stopSubmit") :
        /\ calls[c].pc = "resolved"
        /\ c \in DOMAIN orders
        /\ orders[c].status = "open"

(***************************************************************************)
(* C2.  A submission (stop-limit or plain limit) one of whose checked      *)
(* preconditions fails rejects with an error and invokes neither the       *)
(* execution client, nor sendTransaction, nor addTransaction; the history  *)
(* holds nothing of it.                                                    *)
(***************************************************************************)
C2_FailedPreconditionInvokesNothing ==
    \A c \in Live :
        LET call == calls[c] IN
        (\/ call.kind = "stopSubmit" /\ StopSubmissionPreconditionFails(call)
         \/ call.kind = "limitSubmit" /\ LimitSubmissionPreconditionFails(call))
        => /\ call.pc = "rejected"
           /\ call.err # ""
           /\ NothingInvoked(call)
           /\ NoTransactionOf(c)
           /\ c \notin DOMAIN orders

C2_Witness ==
    \E c \in CallsOf("stopSubmit") :
        /\ IsDefined(calls[c].env.gelatoStopLimitOrders)
        /\ ~Val(calls[c].env.gelatoStopLimitOrders).signer
        /\ calls[c].pc = "rejected"
        /\ orders # <<>>

(***************************************************************************)
(* C3.  Every order record of the history carries the hash of a            *)
(* transaction the network accepted: its createdTxHash, and for a          *)
(* cancelled record its cancelledTxHash too; and every record handed to    *)
(* addTransaction carries the hash of the accepted transaction it came     *)
(* with.                                                                   *)
(***************************************************************************)
C3_RecordsCarryDispatchedHash ==
    /\ \A id \in DOMAIN orders :
          /\ orders[id].createdTxHash \in LowerDispatched
          /\ orders[id].status = "cancelled"
                => /\ "cancelledTxHash" \in DOMAIN orders[id]
                   /\ orders[id].cancelledTxHash \in LowerDispatched
    /\ \A t \in transactions :
          /\ t.hash \in dispatched
          /\ "order" \in DOMAIN t
                => IF t.type = "submission"
                       THEN t.order.createdTxHash = ToLowerCase(t.hash)
                       ELSE t.order.cancelledTxHash = ToLowerCase(t.hash)

C3_Witness ==
    \E id \in DOMAIN orders :
        /\ orders[id].status = "cancelled"
        /\ orders[id].cancelledTxHash \in LowerDispatched
        /\ orders[id].cancelledTxHash # orders[id].createdTxHash
        /\ Cardinality(transactions) = 2

(***************************************************************************)
(* C4.  No submission whose draft has identical tokens, or a missing or    *)
(* non-positive amount, reaches the execution client or sendTransaction.   *)
(***************************************************************************)
C4_InvalidDraftNeverReachesClient ==
    \A c \in CallsOf("stopSubmit") :
        InvalidDraft(calls[c].arg)
            => /\ calls[c].clientCalls = <<>>
               /\ calls[c].sendCalls = <<>>
               /\ calls[c].pc = "rejected"

(***************************************************************************)
(* C5.  A stop-limit submission hands sendTransaction one request, with    *)
(* the payload's to, data and value; the request carries the overrides the *)
(* caller supplied (as the `overrides` argument or as the `overrides`      *)
(* member of orderToSubmit), and the default gasPrice only when the caller *)
(* supplied none.                                                          *)
(***************************************************************************)
C5_RequestCarriesSuppliedOverrides ==
    \A c \in CallsOf("stopSubmit") :
        LET call == calls[c] IN
        /\ Len(call.sendCalls) <= 1
        /\ call.pc = "resolved" => Len(call.sendCalls) = 1
        /\ call.sendCalls # <<>>
              => LET request == call.sendCalls[1]
                     payload == Val(call.enc).payload
                     supplied == SuppliedOverrides(call)
                 IN  /\ request.to = payload.to
                     /\ request.data = payload.data
                     /\ request.value = BigNumberFrom(payload.value)
                     /\ IsDefined(supplied)
                           => \A k \in DOMAIN Val(supplied) \ {"to", "data", "value"} :
                                 /\ k \in DOMAIN request
                                 /\ request[k] = Val(supplied)[k]
                     /\ ("gasPrice" \in DOMAIN request /\ request.gasPrice = gasPrice)
                           <=> ~IsDefined(supplied)

(***************************************************************************)
(* C6.  When the promise a stop-limit submission or cancellation awaits    *)
(* rejects, the call rejects with that same error and has written no       *)
(* history entry; no call attempts a dispatch more than once.              *)
(***************************************************************************)
C6_RejectionPropagatesWithoutRetry ==
    \A c \in CallsOf("stopSubmit") \cup CallsOf("stopCancel") :
        LET call == calls[c] IN
        /\ DispatchAttempts(call) <= 1
        /\ call.rejection # ""
              => /\ call.pc = "rejected"
                 /\ call.err = call.rejection
                 /\ call.added = <<>>
                 /\ NoTransactionOf(c)
                 /\ \A id \in DOMAIN orders :
                       /\ orders[id].createdTxHash \notin {ToLowerCase(h) : h \in TxHashes(c)}
                       /\ "cancelledTxHash" \in DOMAIN orders[id]
                             => orders[id].cancelledTxHash
                                    \notin {ToLowerCase(h) : h \in TxHashes(c)}

C6_Witness ==
    \E c \in CallsOf("stopSubmit") :
        /\ calls[c].rejection # ""
        /\ Len(calls[c].sendCalls) = 1
        /\ orders # <<>>

(***************************************************************************)
(* C7.  The step in which a stop-limit cancellation of a record that is    *)
(* OPEN in the history succeeds makes that record CANCELLED, with the      *)
(* lower-cased hash of the cancellation transaction as cancelledTxHash,    *)
(* and changes no other record.                                            *)
(***************************************************************************)
CancellationSucceeds(c) ==
    /\ c \in CallsOf("stopCancel")
    /\ calls[c].pc = "cancel"
    /\ calls'[c].pc = "resolved"

C8_TerminalRecordsAreNeverRewritten ==
    [][ \A id \in DOMAIN orders :
          /\ id \in DOMAIN orders'
          /\ orders[id].status \in {"cancelled", "executed"}
                => orders'[id] = orders[id]
          /\ orders[id].status # "open" => orders'[id].status # "open" ]_vars

(***************************************************************************)
(* C9.  A cancellation entry for an order is written only after the        *)
(* creation entry for that order: every cancellation record handed to      *)
(* addTransaction is of an order a submission has recorded.                *)
(***************************************************************************)
C9_CancellationOnlyAfterCreation ==
    \A t \in transactions :
        (t.type = "cancellation" /\ "order" \in DOMAIN t)
            => \E s \in transactions :
                  /\ s.type = "submission"
                  /\ "order" \in DOMAIN s
                  /\ s.order.id = t.order.id

(***************************************************************************)
(* C10.  The record a successful stop-limit cancellation writes is the     *)
(* record it was called with in every field but status, updatedAt and      *)
(* cancelledTxHash.                                                        *)
(***************************************************************************)
CancellationFields == {"status", "updatedAt", "cancelledTxHash"}

C10_CancellationPreservesOtherFields ==
    \A c \in CallsOf("stopCancel") :
        calls[c].pc = "resolved"
            => LET passed == calls[c].arg
                   written == calls[c].added[1].order
               IN  /\ Len(calls[c].added) = 1
                   /\ DOMAIN written = DOMAIN passed \cup CancellationFields
                   /\ \A k \in DOMAIN passed \ CancellationFields :
                         written[k] = passed[k]
                   /\ passed.id \in DOMAIN orders => orders[passed.id] = written

C10_Witness ==
    \E c \in CallsOf("stopCancel") :
        /\ calls[c].pc = "resolved"
        /\ IsDefined(calls[c].details)
        /\ calls[c].arg.id \in DOMAIN orders
        /\ calls[c].arg.witness # <<>>

(***************************************************************************)
(* C11.  The existence flag a stop-limit cancellation passes to            *)
(* cancelLimitOrder is true exactly when module, inputToken, owner,        *)
(* witness and data are all set on the record.  A record lacking one of    *)
(* them is not rejected locally: once the guards on client, chainId and    *)
(* account have passed, cancelLimitOrder is called once, with the record,  *)
(* whatever the flag.                                                      *)
(***************************************************************************)
\* A field that is there and truthy: the witness is an optional value, the
\* others are strings.
IsSet(record, k) ==
    /\ k \in DOMAIN record
    /\ IF k = "witness" THEN record[k] # <<>> ELSE record[k] # ""

AllIdentifyingFieldsSet(record) ==
    \A k \in {"module", "inputToken", "owner", "witness", "data"} : IsSet(record, k)

StopCancellationContextKnown(call) ==
    /\ IsDefined(call.env.gelatoStopLimitOrders)
    /\ call.env.chainId # 0
    /\ call.env.account # ""

C11_ExistenceFlagIsConjunction ==
    \A c \in CallsOf("stopCancel") :
        LET call == calls[c] IN
        StopCancellationContextKnown(call)
            => /\ Len(call.clientCalls) = 1
               /\ call.clientCalls[1].method = "cancelLimitOrder"
               /\ call.clientCalls[1].args[1] = call.arg
               /\ call.clientCalls[1].args[2] = AllIdentifyingFieldsSet(call.arg)
               /\ call.pc = "rejected" => call.err = call.rejection /\ call.rejection # ""

C11_Witness ==
    \E c \in CallsOf("stopCancel") :
        /\ calls[c].pc = "resolved"
        /\ ~IsSet(calls[c].arg, "witness")
        /\ calls[c].clientCalls[1].args[2] = FALSE
        /\ \E t \in transactions : t.hash = Val(calls[c].tx).hash

(***************************************************************************)
(* C12.  A cancellation made without an execution client (for the          *)
(* stop-limit handler also: without chainId or account) rejects with an    *)
(* error in the step it is made, invokes neither cancelLimitOrder nor      *)
(* addTransaction, and leaves the history as it was: an OPEN record stays  *)
(* OPEN.                                                                   *)
(***************************************************************************)
CancellationContextMissing(call) ==
    \/ call.kind = "stopCancel" /\ ~StopCancellationContextKnown(call)
    \/ call.kind = "limitCancel" /\ (call.env.chainId = 0 \/ ~call.env.library)

C12_CancellationWithoutContextChangesNothing ==
    [][ /\ \A c \in Live :
              CancellationContextMissing(calls[c])
                  => calls[c].pc = "rejected" /\ NothingInvoked(calls[c])
        /\ \A c \in DOMAIN calls' \ DOMAIN calls :
              CancellationContextMissing(calls'[c])
                  => /\ calls'[c].pc = "rejected"
                     /\ calls'[c].err # ""
                     /\ NothingInvoked(calls'[c])
                     /\ orders' = orders
                     /\ transactions' = transactions
                     /\ dispatched' = dispatched ]_vars

C12_Witness ==
    \E c \in CallsOf("stopCancel") :
        /\ calls[c].env.account = ""
        /\ calls[c].pc = "rejected"
        /\ calls[c].arg.id \in DOMAIN orders
        /\ orders[calls[c].arg.id].status = "open"

(***************************************************************************)
(* C13.  A handleLimitOrderSubmission call that succeeds has handed        *)
(* addTransaction exactly one entry, for the dispatched transaction,       *)
(* carrying a new order record with status "open", which the history       *)
(* holds; and the call returns that transaction's hash.                    *)
(***************************************************************************)
C13_LimitSubmissionAppendsOpenRecord ==
    \A c \in CallsOf("limitSubmit") :
        LET call == calls[c] IN
        call.pc = "resolved"
            => /\ Len(call.added) = 1
               /\ call.added[1].hash = Val(call.tx).hash
               /\ call.added[1].hash \in dispatched
               /\ call.result = Some(Val(call.tx).hash)
               /\ call.added[1].type = "submission"
               /\ "order" \in DOMAIN call.added[1]
               /\ call.added[1].order.status = "open"
               /\ \E id \in DOMAIN orders :
                     orders[id].createdTxHash = ToLowerCase(call.added[1].hash)

(***************************************************************************)
(* C14.  The submission handlers enforce no mutual exclusion: while a      *)
(* stop-limit submission awaits its encode or send step, a second          *)
(* submission of the same draft can be made, and each call's dispatch      *)
(* attempts and history entries are its own.  (The witness is the state    *)
(* the race ends in: one draft, two dispatched transactions, two history   *)
(* entries.)                                                               *)
(***************************************************************************)
InFlight(c) ==
    /\ c \in CallsOf("stopSubmit")
    /\ calls[c].pc \in {"encode", "send"}

C14_NoMutualExclusion ==
    /\ \A c \in DOMAIN calls :
          (InFlight(c) /\ Len(calls) < MaxCalls)
              => ENABLED HandleStopLimitOrderSubmission(calls[c].env, calls[c].arg,
                                                        calls[c].overrides)
    /\ \A c, d \in CallsOf("stopSubmit") :
          (c # d /\ calls[c].arg = calls[d].arg /\ calls[c].pc = "resolved")
              => /\ Len(calls[c].sendCalls) = 1
                 /\ Len(calls[c].added) = 1
                 /\ calls[d].pc = "resolved"
                       => calls[c].added[1].hash # calls[d].added[1].hash

SameDraft(r, q) ==
    \A k \in {"owner", "inputToken", "outputToken", "inputAmount", "maxReturn"} :
        r[k] = q[k]

C14_Witness ==
    /\ Cardinality(dispatched) = 2
    /\ \E s, t \in transactions :
          /\ s.hash # t.hash
          /\ s.type = "submission" /\ t.type = "submission"
          /\ "order" \in DOMAIN s /\ "order" \in DOMAIN t
          /\ SameDraft(s.order, t.order)
    /\ \E i, j \in DOMAIN orders :
          /\ i # j
          /\ SameDraft(orders[i], orders[j])
          /\ orders[i].createdTxHash # orders[j].createdTxHash
    \* the call made second settled first: the two overlapped
    /\ \E c, d \in DOMAIN calls :
          /\ c < d
          /\ calls[c].kind = "stopSubmit" /\ calls[c].pc = "resolved"
          /\ calls[d].kind = "retired"

(***************************************************************************)
(* C15.  The minimum return handleLimitOrderSubmission passes to           *)
(* submitLimitOrder is the fee-and-slippage-adjusted raw output amount on  *)
(* a chain that is not an Ethereum chain, and the raw output amount itself *)
(* on an Ethereum chain; the input amount it passes is the raw input       *)
(* amount.                                                                 *)
(***************************************************************************)
C15_MinReturnAdjustedOffEthereum ==
    \A c \in CallsOf("limitSubmit") :
        LET call == calls[c]
            raw == RawAmounts(call.arg)
        IN  call.clientCalls # <<>>
                => /\ Len(call.clientCalls) = 1
                   /\ call.clientCalls[1].method = "submitLimitOrder"
                   /\ call.clientCalls[1].args[3] = Val(raw.input)
                   /\ call.clientCalls[1].args[4] =
                         IF call.env.chainId \in {MAINNET, ROPSTEN}
                             THEN Val(raw.output)
                             ELSE FeeAndSlippageAdjustedMinReturn(Val(raw.output))
                   /\ call.clientCalls[1].args[4] # Val(raw.output)
                         <=> call.env.chainId \notin {MAINNET, ROPSTEN}

C15_Witness ==
    \E c, d \in CallsOf("limitSubmit") :
        /\ calls[c].env.chainId = MAINNET
        /\ calls[d].env.chainId \notin {MAINNET, ROPSTEN}
        /\ calls[c].clientCalls # <<>>
        /\ calls[d].clientCalls # <<>>
        /\ calls[c].clientCalls[1].args[4] = Val(RawAmounts(calls[c].arg).output)
        /\ calls[d].clientCalls[1].args[4] # Val(RawAmounts(calls[d].arg).output)
(***************************************************************************)
(* C16: each raw amount is the parsed amount of its token in the token's   *)
(* smallest unit (the typed amount times 10^decimals), written as a string *)
(* of digits alone at full precision; it is undefined exactly when the     *)
(* currency or the parsed amount is undefined.                             *)
(***************************************************************************)
Sides == {"input", "output"}

FieldOf(side) == IF side = "input" THEN "INPUT" ELSE "OUTPUT"

IsDigits(s) == \A i \in DOMAIN s : \E d \in 0..9 : s[i] = DigitChar(d)

C16_RawAmountsAreExactIntegers ==
    LET info == DerivedOrderInfo(order, market)
        raw == RawAmounts(info)
    IN  \A side \in Sides :
            /\ IsDefined(raw[side])
                  <=> IsDefined(info.currencies[side]) /\ IsDefined(info.parsedAmounts[side])
            /\ IsDefined(raw[side]) =>
                  /\ IsDigits(Val(raw[side]))
                  /\ BigNumberFrom(Val(raw[side])) = Val(info.parsedAmounts[side]).numerator
                  /\ /\ order.independentField = FieldOf(side)
                     /\ Val(order.typedValue).e <= Val(info.currencies[side]).decimals
                     => BigNumberFrom(Val(raw[side])) * Pow10(Val(order.typedValue).e)
                            = Val(order.typedValue).m
                                * Pow10(Val(info.currencies[side]).decimals)

\* 1234567 of the one-decimal token was typed as the output: the raw output
\* is "12345670", which the six significant digits of the display (1234560)
\* do not give, while the raw input is undefined for want of a route.
C16_Witness ==
    /\ order.independentField = "OUTPUT"
    /\ order.typedValue = <<Dec(1234567, 0)>>
    /\ RawAmounts(DerivedOrderInfo(order, market)).output
            = Some(<<"1", "2", "3", "4", "5", "6", "7", "0">>)
    /\ AmountToSignificant(Val(ParsedAmounts(order, market).output), TokenA)
            = Dec(1234560, 0)
    /\ RawAmounts(DerivedOrderInfo(order, market)).input = Undefined

(***************************************************************************)
(* C17: two handleRateType calls in succession, each with the price and    *)
(* amounts current at its call, bring the rate type back and the displayed *)
(* price back to within the six displayed digits, for the stop-limit and   *)
(* the plain limit handler, from MUL and from DIV.                         *)
(***************************************************************************)
\* What the price field shows.
DisplayedPrice(o) == FormattedAmounts(o, market).price

\* The draft after one call of either handler.
LimitToggled(o) == LimitRateTypeChanged(o, market)

StopLimitToggled(o) == StopLimitRateTypeChanged(o, o.rateType, DerivedPrice(o, market))

Larger(a, b) == IF a >= b THEN a ELSE b

\* Two decimal strings that agree to the six significant digits.
Agree(p, q) ==
    LET e == Larger(p.e, q.e)
        P == p.m * Pow10(e - p.e)
        Q == q.m * Pow10(e - q.e)
    IN  Larger(P, Q) - (P + Q - Larger(P, Q)) <= Larger(P, Q) \div Pow10(SignificantDigits - 1)

\* Two text fields that show the same price.
SamePrice(shown, other) ==
    IF IsDefined(shown) /\ IsDefined(other) THEN Agree(Val(shown), Val(other))
    ELSE shown = other

PriceAvailable(o) == IsDefined(DerivedPrice(o, market))

LimitRoundTrip ==
    PriceAvailable(order) =>
        /\ LimitToggled(LimitToggled(order)).rateType = order.rateType
        /\ SamePrice(DisplayedPrice(LimitToggled(LimitToggled(order))),
                     DisplayedPrice(order))

StopLimitRoundTrip ==
    PriceAvailable(order) =>
        /\ StopLimitToggled(StopLimitToggled(order)).rateType = order.rateType
        /\ SamePrice(DisplayedPrice(StopLimitToggled(StopLimitToggled(order))),
                     DisplayedPrice(order))

C17_TogglingTwiceRestoresThePrice == LimitRoundTrip /\ StopLimitRoundTrip

(***************************************************************************)
(* C18: one handleRateType call with a price available switches the rate   *)
(* type and seeds the price field with the reciprocal of the price shown;  *)
(* the field then holds output/input under MUL and input/output under DIV. *)
(***************************************************************************)
\* 1 / d, to the displayed digits.
Reciprocal(d) == ToSignificant(Fraction(Pow10(d.e), d.m), TRUE)

\* output/input (MUL) or input/output (DIV) of the draft's amounts, as shown.
AmountsRatio(o, rateType) ==
    LET parsed == ParsedAmounts(o, market)
    IN  ToSignificant(PriceFrom(Val(parsed.input), Val(parsed.output),
                                o.currencies, rateType), TRUE)

ReseedsReciprocal(toggled) ==
    PriceAvailable(order) =>
        /\ toggled.rateType = Opposite(order.rateType)
        /\ toggled.independentField = "PRICE"
        /\ SamePrice(toggled.typedValue, Some(Reciprocal(Val(DisplayedPrice(order)))))
        /\ SamePrice(toggled.typedValue, Some(AmountsRatio(order, toggled.rateType)))

C18_ToggleReseedsTheReciprocal ==
    /\ ReseedsReciprocal(LimitToggled(order))
    /\ ReseedsReciprocal(StopLimitToggled(order))

(***************************************************************************)
(* C19: the draft is reset, not destroyed, after a successful submission:  *)
(* when the confirmation that shows the transaction hash is dismissed the  *)
(* typed amount is cleared (independent field INPUT, empty value) and the  *)
(* tokens and the rate type stay; a shown hash is that of a dispatched     *)
(* transaction; when the confirmation is dismissed with no hash (failed    *)
(* or no submission), and when a submission starts or settles, the draft   *)
(* stays exactly as it was.                                                *)
(***************************************************************************)
Dismissed == swap.showConfirm /\ ~swap'.showConfirm

Cleared(o) ==
    [o EXCEPT !.independentField = "INPUT", !.typedValue = <<>>, !.inputValue = <<>>]

Passes == IsValid(order, market) /\ ~PriceImpactPositive(market)

\* This step made a call that reached submitLimitOrder.
SubmissionDispatched ==
    /\ Len(calls') > Len(calls)
    /\ calls'[Len(calls')].clientCalls # <<>>

\* This step opened the confirmation from the button.
ConfirmationOpened == ~swap.showConfirm /\ swap'.showConfirm /\ calls' = calls

ButtonGated ==
    /\ ~IsValid(order, market) => ~BottomGrouping(order, market).enabled
    /\ PriceImpactPositive(market) =>
          BottomGrouping(order, market).shown # "limit-order-button"

C20_SubmissionOnlyFromValidDraft ==
    [][ /\ ButtonGated
        /\ ConfirmationOpened => Passes
        /\ SubmissionDispatched => Passes ]_vars

(***************************************************************************)
(* C21: of the three displayed fields the independent one shows what the   *)
(* user typed, verbatim, and the other two show derived values; a          *)
(* dependent field whose value cannot be derived is shown empty, never as  *)
(* zero.                                                                   *)
(***************************************************************************)
Fields == {"INPUT", "OUTPUT", "PRICE"}

KeyOf(field) ==
    CASE field = "INPUT" -> "input" [] field = "OUTPUT" -> "output" [] OTHER -> "price"

\* The values useDerivedOrderInfo() derived, by displayed field.
DerivedValues(o, mkt) ==
    [ input |-> ParsedAmounts(o, mkt).input,
      output |-> ParsedAmounts(o, mkt).output,
      price |-> DerivedPrice(o, mkt) ]

\* The decimal string `shown` is positive and not above `amount` of `currency`.
ShowsAmount(shown, amount, currency) ==
    /\ shown.m > 0
    /\ MulDiv(shown.m, Pow10(currency.decimals), Pow10(shown.e))[1] <= amount.numerator

C21_IndependentFieldShownVerbatim ==
    LET shown == FormattedAmounts(order, market)
        derived == DerivedValues(order, market)
    IN  /\ shown[KeyOf(order.independentField)] = order.typedValue
        /\ \A field \in Fields \ {order.independentField} :
              /\ shown[KeyOf(field)] = <<>> <=> ~IsDefined(derived[KeyOf(field)])
              /\ shown[KeyOf(field)] # <<>> => Val(shown[KeyOf(field)]).m > 0
        /\ \A side \in Sides :
              order.independentField # FieldOf(side) /\ IsDefined(derived[side]) =>
                  ShowsAmount(Val(shown[side]), Val(derived[side]),
                              Val(order.currencies[side]))
        /\ ~IsDefined(market.rate) /\ order.independentField # "PRICE" =>
              \A field \in Fields \ {order.independentField} :
                  shown[KeyOf(field)] = <<>>

\* 3 was typed as the output while the price source has no route: the output
\* shows 3, the input and the price show nothing.
C21_Witness ==
    /\ order.independentField = "OUTPUT"
    /\ order.typedValue = <<Dec(3, 0)>>
    /\ IsDefined(order.currencies.input) /\ IsDefined(order.currencies.output)
    /\ ~IsDefined(market.rate)
    /\ FormattedAmounts(order, market)
            = [input |-> <<>>, output |-> <<Dec(3, 0)>>, price |-> <<>>]

(***************************************************************************)
(* C22: a stop-limit cancellation always reaches cancelLimitOrder with the *)
(* default gas limit 600000: with the default gasPrice too when the caller *)
(* supplied no overrides, and added to the caller's overrides when these   *)
(* carry no gasLimit.                                                      *)
(***************************************************************************)
\* The overrides the calls of `call` to cancelLimitOrder carried.
CancelledWith(call) ==
    { call.clientCalls[i].args[3] :
        i \in { j \in DOMAIN call.clientCalls :
                    call.clientCalls[j].method = "cancelLimitOrder" } }

CarriesDefaultGasLimit(sent) ==
    "gasLimit" \in DOMAIN sent /\ sent.gasLimit = DefaultGasLimit

DefaultsWhenNoneSupplied ==
    \A c \in CallsOf("stopCancel") :
        ~IsDefined(calls[c].overrides) =>
            \A sent \in CancelledWith(calls[c]) :
                sent = [gasPrice |-> gasPrice, gasLimit |-> DefaultGasLimit]

C22_CancellationCarriesDefaultGasLimit ==
    /\ DefaultsWhenNoneSupplied
    /\ \A c \in CallsOf("stopCancel") :
          \A sent \in CancelledWith(calls[c]) :
              \/ CarriesDefaultGasLimit(sent)
              \/ IsDefined(calls[c].overrides)
                    /\ "gasLimit" \in DOMAIN Val(calls[c].overrides)

(***************************************************************************)
(* C23: in the order panel a handleSwap that starts a submission sets      *)
(* attemptingTxn; when the submission settles attemptingTxn is reset and   *)
(* exactly one outcome is recorded: the returned hash as txHash and no     *)
(* error, or the rejection's message, verbatim, as swapErrorMessage and no *)
(* txHash.  The two are never both set and no rejection goes unrecorded.   *)
(***************************************************************************)
\* Call c is begun, or settles, in this step.
Begins(c) == c \notin DOMAIN calls

Settles(c) ==
    /\ calls'[c].pc \in Settled
    /\ c \in DOMAIN calls => calls[c].pc \notin Settled

OutcomeRecorded ==
    \A c \in DOMAIN calls' :
        /\ Begins(c) /\ calls'[c].pc \notin Settled =>
              /\ swap'.attemptingTxn
              /\ swap'.txHash = Undefined /\ swap'.swapErrorMessage = Undefined
        /\ Settles(c) =>
              /\ ~swap'.attemptingTxn
              /\ calls'[c].pc = "resolved" =>
                    /\ swap'.txHash = calls'[c].result
                    /\ Val(swap'.txHash) \in dispatched'
                    /\ swap'.swapErrorMessage = Undefined
              /\ calls'[c].pc = "rejected" =>
                    /\ swap'.swapErrorMessage = Some(calls'[c].err)
                    /\ calls'[c].rejection # "" =>
                          swap'.swapErrorMessage = Some(calls'[c].rejection)
                    /\ swap'.txHash = Undefined

C23_SubmissionOutcomeRecorded ==
    /\ [](~(IsDefined(swap.txHash) /\ IsDefined(swap.swapErrorMessage)))
    /\ [][OutcomeRecorded]_vars

\* One submission has returned its hash and a later one was rejected by the
\* user: the panel shows that message and no hash.
C23_Witness ==
    /\ Len(calls) = 2
    /\ dispatched # {}
    /\ calls[2].pc = "rejected" /\ calls[2].rejection \in PanelErrors
    /\ swap.swapErrorMessage = Some(calls[2].rejection)
    /\ swap.txHash = Undefined
    /\ ~swap.attemptingTxn

(***************************************************************************)
(* C24: a confirmation the user dismissed stays closed until the           *)
(* place-order button is pressed again, also when a submission begun       *)
(* before the dismissal settles after it: the callbacks of handleSwap      *)
(* leave showConfirm and tradeToConfirm as they are when they run, not as  *)
(* they were when handleSwap was called.                                   *)
(***************************************************************************)
SettleKeepsConfirmation ==
    \A c \in DOMAIN calls :
        Settles(c) =>
            /\ swap'.showConfirm = swap.showConfirm
            /\ swap'.tradeToConfirm = swap.tradeToConfirm

C24_DismissedConfirmationStaysClosed ==
    [][ /\ SettleKeepsConfirmation
        /\ ~swap.showConfirm /\ swap'.showConfirm => calls' = calls ]_vars

(***************************************************************************)
(* C25: no overrides object redirects a stop-limit submission: whatever    *)
(* the caller's overrides hold, to, data and value among them, the request *)
(* handed to sendTransaction has the to, data and value of the encoded     *)
(* payload.                                                                *)
(***************************************************************************)
Redirecting(overrides) ==
    /\ IsDefined(overrides)
    /\ {"to", "data", "value"} \subseteq DOMAIN Val(overrides)

C25_OverridesNeverRedirect ==
    \A c \in CallsOf("stopSubmit") :
        \A i \in DOMAIN calls[c].sendCalls :
            LET request == calls[c].sendCalls[i]
                encoded == Val(calls[c].enc).payload
            IN  /\ request.to = encoded.to
                /\ request.data = encoded.data
                /\ request.value = BigNumberFrom(encoded.value)
                /\ encoded \in Payloads

\* A submission whose overrides name another recipient, other data and
\* another value was dispatched to the payload's recipient.
C25_Witness ==
    \E c \in CallsOf("stopSubmit") :
        /\ calls[c].pc = "resolved"
        /\ Redirecting(calls[c].overrides)
        /\ Val(calls[c].overrides).to # Val(calls[c].enc).payload.to
        /\ calls[c].sendCalls[1].to = Val(calls[c].enc).payload.to
        /\ calls[c].sendCalls[1].to # Val(calls[c].overrides).to

====
